---- MODULE Spec2Model ----
(***************************************************************************)
(* A model of node-sops: the AES-256-GCM envelope (src/utils/crypto.ts),   *)
(* the file codecs (src/utils/file.ts), the Sops facade (index.ts) and the *)
(* CLI commands (src/cli.ts), over an explicit file system.                *)
(*                                                                         *)
(* Strings are sequences of chunks, so that trim(), split('.'), base64     *)
(* decoding and JSON.parse/JSON.stringify are computed, not assumed.       *)
(* Bytes are symbolic terms: random bytes, digests, ciphertexts and tags.  *)
(***************************************************************************)
EXTENDS Integers, Sequences, FiniteSets, TLC

VARIABLES
  files,   \* the regular files: path -> [content, mode]
  dirs,    \* the directories that exist
  inst,    \* the Sops instances: id -> [sops: the object's fields, hist: history]
  last,    \* what the last operation was given and what it reported
  nrand,   \* crypto.randomBytes() calls so far (also the clock of new Date())
  sent,    \* SpecCrypto: the envelopes crypto.encrypt has produced
  wire     \* SpecCrypto: the envelope about to be handed to crypto.decrypt

vars == <<files, dirs, inst, last, nrand, sent, wire>>

---------------------------------------------------------------------------
(* Bounds                                                                  *)
\* how many times crypto.randomBytes() may be called in one behaviour
MaxRandom == 2

---------------------------------------------------------------------------
(* Strings                                                                 *)

\* a run of ordinary characters, a run of white space
Ch(x) == [c |-> x]
Ws(x) == [w |-> x]
Str(x) == <<Ch(x)>>
IsWs(ch) == DOMAIN ch = {"w"}

RECURSIVE TrimStart(_)
TrimStart(s) ==
  IF s # <<>> /\ IsWs(Head(s)) THEN TrimStart(Tail(s)) ELSE s

RECURSIVE TrimEnd(_)
TrimEnd(s) ==
  IF s # <<>> /\ IsWs(s[Len(s)]) THEN TrimEnd(SubSeq(s, 1, Len(s) - 1)) ELSE s

\* String.prototype.trim
trim(s) == TrimEnd(TrimStart(s))

---------------------------------------------------------------------------
(* JavaScript values                                                       *)

Undefined == [t |-> "undefined"]
JNull == [t |-> "null"]
JBool(b) == [t |-> "boolean", b |-> b]
JNum(n) == [t |-> "number", n |-> n]
JStr(s) == [t |-> "string", s |-> s]
JObj(ks, vs) == [t |-> "object", ks |-> ks, vs |-> vs]

IsString(v) == v.t = "string"
\* ToBoolean of null, undefined or a string: the empty string is falsy
Truthy(v) == v.t = "string" /\ v.s # <<>>

\* obj[key] on an object that has or lacks the property
HasProp(v, key) == v.t = "object" /\ \E i \in 1..Len(v.ks) : v.ks[i] = key
GetProp(v, key) ==
  IF HasProp(v, key)
  THEN v.vs[CHOOSE i \in 1..Len(v.ks) : v.ks[i] = key]
  ELSE Undefined

\* outcomes of a call: a value, or a thrown Error with its message, outermost
\* prefix first (`${prefix}: ${error.message}`)
Ok(v) == [ok |-> TRUE, v |-> v]
Err(msg) == [ok |-> FALSE, err |-> msg]
Wrap(prefix, r) == Err(<<prefix>> \o r.err)

---------------------------------------------------------------------------
(* JSON                                                                    *)

\* JSON tokens: punctuation and keywords are Ch(..), a string literal is
\* [q |-> its text], a number literal is [n |-> its value], white space Ws(..)
Quoted(s) == [q |-> s]
Numeral(n) == [n |-> n]

RECURSIVE Stringify(_, _)
RECURSIVE StringifyMembers(_, _, _)
StringifyMembers(v, i, pretty) ==
  IF i > Len(v.ks) THEN <<>>
  ELSE (IF i > 1 THEN <<Ch(",")>> ELSE <<>>)
       \o (IF pretty THEN <<Ws("\n")>> ELSE <<>>)
       \o <<Quoted(v.ks[i]), Ch(":")>>
       \o (IF pretty THEN <<Ws(" ")>> ELSE <<>>)
       \o Stringify(v.vs[i], pretty)
       \o StringifyMembers(v, i + 1, pretty)

Stringify(v, pretty) ==
  CASE v.t = "null" -> <<Ch("null")>>
    [] v.t = "boolean" -> <<Ch(IF v.b THEN "true" ELSE "false")>>
    [] v.t = "number" -> <<Numeral(v.n)>>
    [] v.t = "string" -> <<Quoted(v.s)>>
    [] v.t = "object" ->
         <<Ch("{")>> \o StringifyMembers(v, 1, pretty)
         \o (IF pretty /\ v.ks # <<>> THEN <<Ws("\n")>> ELSE <<>>)
         \o <<Ch("}")>>

\* JSON.stringify(value) and JSON.stringify(value, null, 2): undefined for undefined
JSON_stringify(v, pretty) ==
  IF v.t = "undefined" THEN Undefined ELSE JStr(Stringify(v, pretty))

Bad == [ok |-> FALSE]

RECURSIVE ParseValue(_, _)
RECURSIVE ParseMembers(_, _, _, _)
ParseMembers(ts, i, ks, vs) ==
  LET After(r) ==
        IF ~r.ok \/ r.i > Len(ts) THEN Bad
        ELSE IF ts[r.i] = Ch(",")
             THEN ParseMembers(ts, r.i + 1, Append(ks, ts[i].q), Append(vs, r.v))
        ELSE IF ts[r.i] = Ch("}")
             THEN [ok |-> TRUE, v |-> JObj(Append(ks, ts[i].q), Append(vs, r.v)),
                   i |-> r.i + 1]
        ELSE Bad
  IN IF i + 1 > Len(ts) \/ DOMAIN ts[i] # {"q"} \/ ts[i + 1] # Ch(":") THEN Bad
     ELSE After(ParseValue(ts, i + 2))

ParseValue(ts, i) ==
  IF i > Len(ts) THEN Bad
  ELSE LET tk == ts[i] IN
       IF DOMAIN tk = {"q"} THEN [ok |-> TRUE, v |-> JStr(tk.q), i |-> i + 1]
       ELSE IF DOMAIN tk = {"n"} THEN [ok |-> TRUE, v |-> JNum(tk.n), i |-> i + 1]
       ELSE IF tk = Ch("null") THEN [ok |-> TRUE, v |-> JNull, i |-> i + 1]
       ELSE IF tk = Ch("true") THEN [ok |-> TRUE, v |-> JBool(TRUE), i |-> i + 1]
       ELSE IF tk = Ch("false") THEN [ok |-> TRUE, v |-> JBool(FALSE), i |-> i + 1]
       ELSE IF tk = Ch("{")
            THEN IF i + 1 <= Len(ts) /\ ts[i + 1] = Ch("}")
                 THEN [ok |-> TRUE, v |-> JObj(<<>>, <<>>), i |-> i + 2]
                 ELSE ParseMembers(ts, i + 1, <<>>, <<>>)
       ELSE Bad

NotWs(ch) == ~IsWs(ch)

\* JSON.parse(text): the value, or a SyntaxError
JSON_parse(text) ==
  LET Whole(ts, r) ==
        IF r.ok /\ r.i = Len(ts) + 1 THEN Ok(r.v)
        ELSE Err(<<"Unexpected token in JSON">>)
      Tokens(ts) == Whole(ts, ParseValue(ts, 1))
  IN Tokens(SelectSeq(text, NotWs))

---------------------------------------------------------------------------
(* Bytes and base64                                                        *)

\* crypto.randomBytes: the n-th draw of the CSPRNG
RandomBytes(n) == [rnd |-> n]

\* buf.toString('base64'): the canonical encoding, unused trailing bits zero
ToBase64(bytes) == <<[b64 |-> bytes, slack |-> 0]>>

\* Buffer.from(s, 'base64'): lenient. The unused trailing bits of the last
\* character are ignored; text that is no base64 decodes to other bytes.
FromBase64(s) ==
  IF Len(s) = 1 /\ DOMAIN s[1] = {"b64", "slack"} THEN s[1].b64
  ELSE [junk |-> s]

---------------------------------------------------------------------------
(* src/utils/crypto.ts: the cipher                                         *)

\* SHA-256 of the raw key: a digest determined by, and determining, its input
sha256(s) == [sha |-> s]

\* a derivation that ignores the raw key
deriveKey_constant(rawKey) == sha256(<<>>)

deriveKey(rawKey) == sha256(rawKey)

\* the r-th draw of 32 random bytes, base64-encoded
generateKey(r) == ToBase64(RandomBytes(r))

\* AES-256 in counter mode: the ciphertext of plain under (key, iv)
CtrEncrypt(key, iv, plain) == [ck |-> key, civ |-> iv, cp |-> plain]

\* decrypting under another key or iv, or altered bytes, yields other text
CtrDecrypt(key, iv, ct) ==
  IF DOMAIN ct = {"ck", "civ", "cp"} /\ ct.ck = key /\ ct.civ = iv THEN ct.cp
  ELSE <<[garbled |-> ct]>>

\* the 16-byte GCM tag over the ciphertext under (key, iv)
GcmTag(key, iv, ct) == [mk |-> key, miv |-> iv, mct |-> ct, len |-> 16]

\* the tag lengths (bytes) decipher.setAuthTag accepts when createDecipheriv
\* is given no authTagLength
AuthTagLengths == {4, 8, 12, 13, 14, 15, 16}

ByteLength(bytes) ==
  IF "len" \in DOMAIN bytes THEN bytes.len
  ELSE IF bytes = [junk |-> <<>>] THEN 0
  ELSE 16

\* decipher.final(): the tag given is the leading bytes of the tag computed
TagVerifies(key, iv, ct, tag) ==
  /\ DOMAIN tag = {"mk", "miv", "mct", "len"}
  /\ [tag EXCEPT !.len = 16] = GcmTag(key, iv, ct)

P_iv == Str("iv")
P_content == Str("content")
P_tag == Str("tag")
P_metadata == Str("metadata")

\* an encryption whose tag is computed over the plaintext, not the ciphertext
encrypt_tagOverPlaintext(content, rawKey, r) ==
  IF ~IsString(content)
  THEN Err(<<"The \"data\" argument must be of type string">>)
  ELSE Ok(JObj(<<P_iv, P_content, P_tag>>,
               <<JStr(ToBase64(RandomBytes(r))),
                 JStr(ToBase64(CtrEncrypt(sha256(rawKey.s), RandomBytes(r), content.s))),
                 JStr(ToBase64(GcmTag(sha256(rawKey.s), RandomBytes(r), content.s)))>>))

crypto_encrypt(content, rawKey, r) ==
  LET iv == RandomBytes(r)
      key == deriveKey(rawKey.s)
  IN IF ~IsString(content)
     THEN Err(<<"The \"data\" argument must be of type string">>)
     ELSE LET encrypted == CtrEncrypt(key, iv, content.s)
              authTag == GcmTag(key, iv, encrypted)
          IN Ok(JObj(<<P_iv, P_content, P_tag>>,
                     <<JStr(ToBase64(iv)), JStr(ToBase64(encrypted)),
                       JStr(ToBase64(authTag))>>))

DecryptionFailed(msg) ==
  Err(<<"Decryption failed", msg,
        "This could be due to an incorrect key, corrupted data, or data tampering.">>)

crypto_decrypt(encryptedData, rawKey) ==
  IF encryptedData.t \in {"null", "undefined"}
  THEN DecryptionFailed("Cannot read properties of null")
  ELSE
  LET ivS == GetProp(encryptedData, P_iv)
      content == GetProp(encryptedData, P_content)
      tagS == GetProp(encryptedData, P_tag)
  IN IF ~IsString(ivS) \/ ~IsString(tagS)
     THEN DecryptionFailed("The first argument must be of type string")
     ELSE
     LET iv == FromBase64(ivS.s)
         authTag == FromBase64(tagS.s)
         key == deriveKey(rawKey.s)
     IN IF ByteLength(iv) = 0
        THEN DecryptionFailed("Invalid initialization vector")
        ELSE IF ByteLength(authTag) \notin AuthTagLengths
        THEN DecryptionFailed("Invalid authentication tag length")
        ELSE IF ~IsString(content)
        THEN DecryptionFailed("The \"data\" argument must be of type string")
        ELSE IF ~TagVerifies(key, iv, FromBase64(content.s), authTag)
        THEN DecryptionFailed("Unsupported state or unable to authenticate data")
        ELSE Ok(JStr(CtrDecrypt(key, iv, FromBase64(content.s))))

---------------------------------------------------------------------------
(* SpecCrypto: crypto.encrypt and crypto.decrypt on their own, with an      *)
(* adversary between them who holds no key                                  *)

SetProp(obj, key, val) ==
  [obj EXCEPT !.vs = [i \in 1..Len(obj.vs) |->
                        IF obj.ks[i] = key THEN val ELSE obj.vs[i]]]

DelProp(obj, key) ==
  LET keep == {i \in 1..Len(obj.ks) : obj.ks[i] # key}
      RECURSIVE Pick(_, _)
      Pick(s, i) == IF i > Len(s) THEN <<>>
                    ELSE (IF i \in keep THEN <<s[i]>> ELSE <<>>) \o Pick(s, i + 1)
  IN JObj(Pick(obj.ks, 1), Pick(obj.vs, 1))

\* the ways one field of an envelope can be altered without the key
Alterations == {"flip", "slack", "truncate", "junk", "empty", "missing"}

Altered(obj, field, how) ==
  LET old == GetProp(obj, field).s
      bytes == FromBase64(old)
  IN CASE how = "flip" -> SetProp(obj, field, JStr(ToBase64([flip |-> bytes])))
       [] how = "slack" -> SetProp(obj, field, JStr(<<[b64 |-> bytes, slack |-> 1]>>))
       [] how = "truncate" ->
            IF "len" \in DOMAIN bytes
            THEN SetProp(obj, field, JStr(ToBase64([bytes EXCEPT !.len = 4])))
            ELSE SetProp(obj, field, JStr(ToBase64([cut |-> bytes])))
       [] how = "junk" -> SetProp(obj, field, JStr(Str("not base64")))
       [] how = "empty" -> SetProp(obj, field, JStr(<<>>))
       [] how = "missing" -> DelProp(obj, field)

CryptoPlaintexts ==
  { <<>>, Str("hello"), Stringify(JObj(<<Str("x")>>, <<JNum(1)>>), FALSE) }

CryptoKeys == { Str("K1"), Str("K2"), <<>> }

NoOp == [op |-> "none"]

InitCrypto ==
  /\ files = <<>>
  /\ dirs = {}
  /\ inst = <<>>
  /\ last = NoOp
  /\ nrand = 0
  /\ sent = {}
  /\ wire = Undefined

CryptoEncrypt(p, k) ==
  /\ nrand < MaxRandom
  /\ LET r == crypto_encrypt(JStr(p), JStr(k), nrand + 1) IN
       /\ sent' = sent \cup {[p |-> p, key |-> k, env |-> r.v]}
       /\ wire' = r.v
       /\ last' = [op |-> "crypto.encrypt", res |-> r]
  /\ nrand' = nrand + 1
  /\ UNCHANGED <<files, dirs, inst>>

\* the envelope reaches decrypt as it was produced
Deliver(e) ==
  /\ wire' = e.env
  /\ last' = [op |-> "deliver"]
  /\ UNCHANGED <<files, dirs, inst, nrand, sent>>

\* one field of a produced envelope is altered
Tamper(e, field, how) ==
  /\ wire' = Altered(e.env, field, how)
  /\ last' = [op |-> "tamper", field |-> field, how |-> how]
  /\ UNCHANGED <<files, dirs, inst, nrand, sent>>

\* one field of a produced envelope is replaced by that of another
Mix(e1, e2, field) ==
  /\ e1 # e2
  /\ wire' = SetProp(e1.env, field, GetProp(e2.env, field))
  /\ last' = [op |-> "mix", field |-> field]
  /\ UNCHANGED <<files, dirs, inst, nrand, sent>>

CryptoDecrypt(k) ==
  /\ last.op \in {"crypto.encrypt", "deliver", "tamper", "mix"}
  /\ last' = [op |-> "crypto.decrypt", data |-> wire, key |-> k,
              res |-> crypto_decrypt(wire, JStr(k))]
  /\ UNCHANGED <<files, dirs, inst, nrand, sent, wire>>

NextCrypto ==
  \/ \E p \in CryptoPlaintexts, k \in CryptoKeys : CryptoEncrypt(p, k)
  \/ \E e \in sent : Deliver(e)
  \/ \E e \in sent, field \in {P_iv, P_content, P_tag}, how \in Alterations :
       Tamper(e, field, how)
  \/ \E e1 \in sent, e2 \in sent, field \in {P_iv, P_content, P_tag} :
       Mix(e1, e2, field)
  \/ \E k \in CryptoKeys : CryptoDecrypt(k)

SpecCrypto == InitCrypto /\ [][NextCrypto]_vars

---------------------------------------------------------------------------
(* Paths (path.dirname, path.join, path.extname)                           *)

\* a path is its directory (the names from the root) and its file name, the
\* name being its dot-separated parts: notes.enc.json is <<"notes","enc","json">>
\* and the dot-file .sops-key the single part <<".sops-key">>
Cwd == <<"r", "w">>
NoPath == [none |-> TRUE]
path_join(dir, name) == [dir |-> dir, name |-> name]
path_dirname(p) == p.dir
path_extname(p) == IF Len(p.name) > 1 THEN p.name[Len(p.name)] ELSE ""

toLowerCase(x) ==
  CASE x = "JSON" -> "json"
    [] x = "YAML" -> "yaml"
    [] x = "YML" -> "yml"
    [] OTHER -> x

---------------------------------------------------------------------------
(* The file system (fs.*Sync). A world w is [files, dirs]. Every call that  *)
(* can fail for a reason outside the program takes a fault: "ok", "fail"    *)
(* (refused, nothing changed) or, for a write, "partial" (the file was      *)
(* opened and truncated, and the write then failed).                        *)

\* 0o600, the mode saveKey sets
KeyFileMode == 384
\* the mode of a file created by writeFileSync: 0o666 under a umask of 0o022
CreateMode == (6 * 64) + (4 * 8) + 4

World(f, d) == [files |-> f, dirs |-> d]

fs_existsSync(w, p) == p \in DOMAIN w.files
fs_existsSyncDir(w, d) == d \in w.dirs

WithFile(w, p, text, mode) ==
  [w EXCEPT !.files = (p :> [content |-> text, mode |-> mode]) @@ w.files]

fs_writeFileSync(w, p, data, fault) ==
  IF p.dir \notin w.dirs
  THEN [ok |-> FALSE, w |-> w, err |-> <<"ENOENT: no such file or directory">>]
  ELSE IF fault = "fail"
  THEN [ok |-> FALSE, w |-> w, err |-> <<"EACCES: permission denied">>]
  ELSE LET mode == IF p \in DOMAIN w.files THEN w.files[p].mode ELSE CreateMode
       IN IF fault = "partial"
          THEN [ok |-> FALSE,
                w |-> WithFile(w, p, SubSeq(data, 1, Len(data) \div 2), mode),
                err |-> <<"ENOSPC: no space left on device">>]
          ELSE [ok |-> TRUE, w |-> WithFile(w, p, data, mode)]

fs_chmodSync(w, p, mode, fault) ==
  IF p \notin DOMAIN w.files
  THEN [ok |-> FALSE, w |-> w, err |-> <<"ENOENT: no such file or directory">>]
  ELSE IF fault = "fail"
  THEN [ok |-> FALSE, w |-> w, err |-> <<"EPERM: operation not permitted">>]
  ELSE [ok |-> TRUE, w |-> [w EXCEPT !.files[p].mode = mode]]

fs_unlinkSync(w, p, fault) ==
  IF p \notin DOMAIN w.files
  THEN [ok |-> FALSE, w |-> w, err |-> <<"ENOENT: no such file or directory">>]
  ELSE IF fault = "fail"
  THEN [ok |-> FALSE, w |-> w, err |-> <<"EACCES: permission denied">>]
  ELSE [ok |-> TRUE,
        w |-> [w EXCEPT !.files = [q \in DOMAIN w.files \ {p} |-> w.files[q]]]]

\* fs.mkdirSync(dir, { recursive: true })
fs_mkdirSync(w, d, fault) ==
  IF fault = "fail"
  THEN [ok |-> FALSE, w |-> w, err |-> <<"EACCES: permission denied">>]
  ELSE [ok |-> TRUE,
        w |-> [w EXCEPT !.dirs = w.dirs \cup {SubSeq(d, 1, k) : k \in 0..Len(d)}]]

\* the process owns the files and is not root: it reads a file whose owner
\* read bit (0o400) is set
OwnerCanRead(mode) == (mode \div 256) % 2 = 1

fs_readFileSync(w, p) ==
  IF p \notin DOMAIN w.files
  THEN Err(<<"ENOENT: no such file or directory">>)
  ELSE IF ~OwnerCanRead(w.files[p].mode)
  THEN Err(<<"EACCES: permission denied">>)
  ELSE Ok(w.files[p].content)

\* A handler's fault names the call it strikes: the callee it is made in
\* ("" for the handler's own calls), the call, and how it fails.
NoFault == [in |-> "", site |-> "none", kind |-> "ok"]
Fault(site, kind) == [in |-> "", site |-> site, kind |-> kind]
FaultIn(callee, site, kind) == [in |-> callee, site |-> site, kind |-> kind]
At(fault, site) == IF fault.in = "" /\ fault.site = site THEN fault.kind ELSE "ok"
\* the fault as the callee sees it
Within(fault, callee) ==
  IF fault.in = callee THEN [fault EXCEPT !.in = ""] ELSE NoFault

---------------------------------------------------------------------------
(* src/utils/file.ts                                                       *)

\* js-yaml, an external codec: dump renders a value as a block document, load
\* reads a block document, a flow (JSON) document, or an empty one (undefined)
yaml_dump(data) == <<[yaml |-> data]>>
yaml_load(text) ==
  IF Len(text) = 1 /\ DOMAIN text[1] = {"yaml"} THEN Ok(text[1].yaml)
  ELSE IF trim(text) = <<>> THEN Ok(Undefined)
  ELSE JSON_parse(text)

\* a failed call's outcome under the caller's prefix
Rethrow(prefix, r) == [ok |-> FALSE, w |-> r.w, err |-> <<prefix>> \o r.err]
Done(w) == [ok |-> TRUE, w |-> w]

\* if (!fs.existsSync(dir)) fs.mkdirSync(dir, { recursive: true })
EnsureDir(w, dir, fault) ==
  IF ~fs_existsSyncDir(w, dir) THEN fs_mkdirSync(w, dir, At(fault, "mkdir"))
  ELSE Done(w)

readYamlFile(w, filePath) ==
  LET Loaded(r) == IF r.ok THEN r ELSE Wrap("Failed to read YAML file", r)
      Read(c) == IF c.ok THEN Loaded(yaml_load(c.v))
                 ELSE Wrap("Failed to read YAML file", c)
  IN IF ~fs_existsSync(w, filePath)
     THEN Err(<<"Failed to read YAML file", "File does not exist">>)
     ELSE Read(fs_readFileSync(w, filePath))

writeYamlFile(w, filePath, data, fault) ==
  LET Written(r) == IF r.ok THEN r ELSE Rethrow("Failed to write YAML file", r)
      Made(m) ==
        IF ~m.ok THEN Rethrow("Failed to write YAML file", m)
        ELSE Written(fs_writeFileSync(m.w, filePath, yaml_dump(data),
                                      At(fault, "write")))
  IN Made(EnsureDir(w, path_dirname(filePath), fault))

readJsonFile(w, filePath) ==
  LET Parsed(r) == IF r.ok THEN r ELSE Wrap("Failed to read JSON file", r)
      Read(c) == IF c.ok THEN Parsed(JSON_parse(c.v))
                 ELSE Wrap("Failed to read JSON file", c)
  IN IF ~fs_existsSync(w, filePath)
     THEN Err(<<"Failed to read JSON file", "File does not exist">>)
     ELSE Read(fs_readFileSync(w, filePath))

writeJsonFile(w, filePath, data, fault) ==
  LET Written(r) == IF r.ok THEN r ELSE Rethrow("Failed to write JSON file", r)
      Made(m) ==
        IF ~m.ok THEN Rethrow("Failed to write JSON file", m)
        ELSE Written(fs_writeFileSync(m.w, filePath, JSON_stringify(data, TRUE).s,
                                      At(fault, "write")))
  IN Made(EnsureDir(w, path_dirname(filePath), fault))

getFileExtension(filePath) == toLowerCase(path_extname(filePath))

isYamlFile(filePath) ==
  LET ext == getFileExtension(filePath) IN ext = "yaml" \/ ext = "yml"

isJsonFile(filePath) == getFileExtension(filePath) = "json"

readDataFile(w, filePath) ==
  IF isYamlFile(filePath) THEN readYamlFile(w, filePath)
  ELSE IF isJsonFile(filePath) THEN readJsonFile(w, filePath)
  ELSE Err(<<"Unsupported file type">>)

writeDataFile(w, filePath, data, fault) ==
  IF isYamlFile(filePath) THEN writeYamlFile(w, filePath, data, fault)
  ELSE IF isJsonFile(filePath) THEN writeJsonFile(w, filePath, data, fault)
  ELSE [ok |-> FALSE, w |-> w, err |-> <<"Unsupported file type">>]

---------------------------------------------------------------------------
(* src/utils/crypto.ts: the key file                                       *)

\* a saveKey that leaves the mode the write gave the file
saveKey_noChmod(w, key, keyPath, fault) ==
  LET Written(wr) == IF wr.ok THEN wr ELSE Rethrow("Failed to save key to", wr)
      Made(m) ==
        IF ~m.ok THEN Rethrow("Failed to save key to", m)
        ELSE Written(fs_writeFileSync(m.w, keyPath, key, At(fault, "write")))
  IN Made(EnsureDir(w, path_dirname(keyPath), fault))

saveKey(w, key, keyPath, fault) ==
  LET Chmodded(c) == IF c.ok THEN c ELSE Rethrow("Failed to save key to", c)
      Written(wr) ==
        IF ~wr.ok THEN Rethrow("Failed to save key to", wr)
        ELSE Chmodded(fs_chmodSync(wr.w, keyPath, KeyFileMode, At(fault, "chmod")))
      Made(m) ==
        IF ~m.ok THEN Rethrow("Failed to save key to", m)
        ELSE Written(fs_writeFileSync(m.w, keyPath, key, At(fault, "write")))
  IN Made(EnsureDir(w, path_dirname(keyPath), fault))

\* a check of the bits of "other" alone
hasSecurePermissions_otherOnly(w, filePath) ==
  /\ fs_existsSync(w, filePath)
  /\ w.files[filePath].mode % 8 = 0

\* (mode & 0o077) === 0; false when the file cannot be stat'ed
hasSecurePermissions(w, filePath) ==
  /\ fs_existsSync(w, filePath)
  /\ w.files[filePath].mode % 64 = 0

\* the key read, and whether console.warn was called
loadKey(w, keyPath) ==
  LET Read(warned, c) ==
        IF ~c.ok
        THEN [ok |-> FALSE, warned |-> warned,
              err |-> <<"Failed to load key from">> \o c.err]
        ELSE [ok |-> TRUE, warned |-> warned, v |-> JStr(trim(c.v))]
  IN IF ~fs_existsSync(w, keyPath)
     THEN [ok |-> FALSE, warned |-> FALSE,
           err |-> <<"Failed to load key from", "Key file does not exist">>]
     ELSE Read(~hasSecurePermissions(w, keyPath), fs_readFileSync(w, keyPath))

RECURSIVE FindKeyFileFrom(_, _, _, _, _)
FindKeyFileFrom(w, fileName, maxDepth, currentDir, depth) ==
  IF ~(depth < maxDepth) THEN NoPath
  ELSE IF fs_existsSync(w, path_join(currentDir, fileName))
  THEN path_join(currentDir, fileName)
  ELSE IF currentDir = <<>> THEN NoPath
  ELSE FindKeyFileFrom(w, fileName, maxDepth,
                       SubSeq(currentDir, 1, Len(currentDir) - 1), depth + 1)

DefaultKeyName == <<".sops-key">>
DefaultMaxDepth == 5

findKeyFile(w, fileName, maxDepth) == FindKeyFileFrom(w, fileName, maxDepth, Cwd, 0)

---------------------------------------------------------------------------
(* index.ts: class Sops. Every method maps the world and the instance to    *)
(* the world and the instance after it, and what it returned or threw.      *)

\* a constructor that prefers a key file it finds to the path it is given
new_prefersFound(w, keyPathOption) ==
  LET Resolved(found) ==
        [keyPath |-> IF found # NoPath THEN found
                     ELSE IF keyPathOption # NoPath THEN keyPathOption
                     ELSE path_join(Cwd, DefaultKeyName),
         key |-> JNull]
  IN Resolved(findKeyFile(w, DefaultKeyName, DefaultMaxDepth))

\* new Sops(options): options.keyPath is a path or absent
Sops_new(w, keyPathOption) ==
  LET Resolved(found) ==
        [keyPath |-> IF keyPathOption # NoPath THEN keyPathOption
                     ELSE IF found # NoPath THEN found
                     ELSE path_join(Cwd, DefaultKeyName),
         key |-> JNull]
  IN Resolved(findKeyFile(w, DefaultKeyName, DefaultMaxDepth))

\* an initialize without the exists check
initialize_overwrites(w, self, r, fault) ==
  LET Saved(key, s) ==
        IF ~s.ok THEN [w |-> s.w, self |-> self, res |-> Err(s.err)]
        ELSE [w |-> s.w, self |-> [self EXCEPT !.key = JStr(key)],
              res |-> Ok(JStr(key))]
  IN Saved(generateKey(r), saveKey(w, generateKey(r), self.keyPath, fault))

\* an initialize that caches the key before it is saved
initialize_cachesFirst(w, self, r, fault) ==
  LET Saved(key, s) ==
        [w |-> s.w, self |-> [self EXCEPT !.key = JStr(key)],
         res |-> IF s.ok THEN Ok(JStr(key)) ELSE Err(s.err)]
  IN IF fs_existsSync(w, self.keyPath)
     THEN [w |-> w, self |-> self, res |-> Err(<<"Key file already exists at">>)]
     ELSE Saved(generateKey(r), saveKey(w, generateKey(r), self.keyPath, fault))

Sops_initialize(w, self, r, fault) ==
  LET Saved(key, s) ==
        IF ~s.ok THEN [w |-> s.w, self |-> self, res |-> Err(s.err)]
        ELSE [w |-> s.w, self |-> [self EXCEPT !.key = JStr(key)],
              res |-> Ok(JStr(key))]
      Generated(key) == Saved(key, saveKey(w, key, self.keyPath, fault))
  IN IF fs_existsSync(w, self.keyPath)
     THEN [w |-> w, self |-> self, res |-> Err(<<"Key file already exists at">>)]
     ELSE Generated(generateKey(r))

\* a getKey without the exists check
getKey_loadsUnchecked(w, self) ==
  LET Loaded(k) ==
        IF ~k.ok THEN [self |-> self, warned |-> k.warned, res |-> Err(k.err)]
        ELSE [self |-> [self EXCEPT !.key = k.v], warned |-> k.warned,
              res |-> Ok(k.v)]
  IN IF Truthy(self.key)
     THEN [self |-> self, warned |-> FALSE, res |-> Ok(self.key)]
     ELSE Loaded(loadKey(w, self.keyPath))

Sops_getKey(w, self) ==
  LET Loaded(k) ==
        IF ~k.ok THEN [self |-> self, warned |-> k.warned, res |-> Err(k.err)]
        ELSE [self |-> [self EXCEPT !.key = k.v], warned |-> k.warned,
              res |-> Ok(k.v)]
  IN IF Truthy(self.key)
     THEN [self |-> self, warned |-> FALSE, res |-> Ok(self.key)]
     ELSE IF ~fs_existsSync(w, self.keyPath)
     THEN [self |-> self, warned |-> FALSE,
           res |-> Err(<<"Key file not found at", "Run initialize() first.">>)]
     ELSE Loaded(loadKey(w, self.keyPath))

\* new Date().toISOString() at the r-th draw
Timestamp(r) == <<[time |-> r]>>

\* an encrypt whose metadata has no version
encrypt_noVersion(w, self, inputPath, outputPath, r, fault) ==
  LET Failed(me, cause) ==
        [w |-> w, self |-> me, res |-> Wrap("Failed to encrypt file", cause)]
      Written(k, wr) ==
        IF ~wr.ok
        THEN [w |-> wr.w, self |-> k.self, res |-> Wrap("Failed to encrypt file", wr)]
        ELSE [w |-> wr.w, self |-> k.self, res |-> Ok(Undefined)]
      Encrypted(k, e) ==
        IF ~e.ok THEN Failed(k.self, e)
        ELSE Written(k, writeJsonFile(w, outputPath,
               JObj(e.v.ks \o <<P_metadata>>,
                    e.v.vs \o <<JObj(<<Str("encryptedAt")>>, <<JStr(Timestamp(r))>>)>>),
               fault))
      Keyed(content, k) ==
        IF ~k.res.ok THEN Failed(k.self, k.res)
        ELSE Encrypted(k, crypto_encrypt(content, k.res.v, r))
      Read(data) ==
        IF ~data.ok THEN Failed(self, data)
        ELSE Keyed(JSON_stringify(data.v, FALSE), Sops_getKey(w, self))
  IN Read(readDataFile(w, inputPath))

Sops_encrypt(w, self, inputPath, outputPath, r, fault) ==
  LET Failed(me, cause) ==
        [w |-> w, self |-> me, res |-> Wrap("Failed to encrypt file", cause)]
      Written(k, wr) ==
        IF ~wr.ok
        THEN [w |-> wr.w, self |-> k.self, res |-> Wrap("Failed to encrypt file", wr)]
        ELSE [w |-> wr.w, self |-> k.self, res |-> Ok(Undefined)]
      Encrypted(k, e) ==
        IF ~e.ok THEN Failed(k.self, e)
        ELSE Written(k, writeJsonFile(w, outputPath,
               JObj(e.v.ks \o <<P_metadata>>,
                    e.v.vs \o <<JObj(<<Str("encryptedAt"), Str("version")>>,
                                     <<JStr(Timestamp(r)), JStr(Str("1.0"))>>)>>),
               fault))
      Keyed(content, k) ==
        IF ~k.res.ok THEN Failed(k.self, k.res)
        ELSE Encrypted(k, crypto_encrypt(content, k.res.v, r))
      Read(data) ==
        IF ~data.ok THEN Failed(self, data)
        ELSE Keyed(JSON_stringify(data.v, FALSE), Sops_getKey(w, self))
  IN Read(readDataFile(w, inputPath))

\* the steps decrypt and view share: read the envelope, decrypt, parse
ReadAndDecrypt(w, self, inputPath) ==
  LET Decrypted(k, decrypted) ==
        IF ~decrypted.ok THEN [self |-> k.self, res |-> decrypted]
        ELSE [self |-> k.self, res |-> JSON_parse(decrypted.v.s)]
      Keyed(encryptedData, k) ==
        IF ~k.res.ok THEN [self |-> k.self, res |-> k.res]
        ELSE Decrypted(k, crypto_decrypt(encryptedData.v, k.res.v))
      Read(encryptedData) ==
        IF ~encryptedData.ok THEN [self |-> self, res |-> encryptedData]
        ELSE Keyed(encryptedData, Sops_getKey(w, self))
  IN Read(readJsonFile(w, inputPath))

Sops_decrypt(w, self, inputPath, outputPath, fault) ==
  LET Written(d, wr) ==
        IF ~wr.ok
        THEN [w |-> wr.w, self |-> d.self, res |-> Wrap("Failed to decrypt file", wr)]
        ELSE [w |-> wr.w, self |-> d.self, res |-> Ok(Undefined)]
      Parsed(d) ==
        IF ~d.res.ok
        THEN [w |-> w, self |-> d.self, res |-> Wrap("Failed to decrypt file", d.res)]
        ELSE Written(d, writeDataFile(w, outputPath, d.res.v, fault))
  IN Parsed(ReadAndDecrypt(w, self, inputPath))

Sops_view(w, self, inputPath) ==
  LET Parsed(d) ==
        IF ~d.res.ok
        THEN [self |-> d.self, res |-> Wrap("Failed to view encrypted content", d.res)]
        ELSE d
  IN Parsed(ReadAndDecrypt(w, self, inputPath))

\* key.split('.')
RECURSIVE split(_, _)
split(s, part) ==
  IF s = <<>> THEN <<part>>
  ELSE IF Head(s) = Ch(".") THEN <<part>> \o split(Tail(s), <<>>)
  ELSE split(Tail(s), Append(part, Head(s)))

\* a method that a value inherits from its prototype
JFunction(name) == [t |-> "function", name |-> name]

\* some of the names every object, string, number and boolean inherits from
\* Object.prototype
Inherited == {Str("constructor"), Str("toString"), Str("hasOwnProperty")}

\* value[part] for a value that is neither null nor undefined: an own property,
\* or else one found on the prototype chain
Index(value, part) ==
  IF HasProp(value, part) THEN GetProp(value, part)
  ELSE IF value.t = "string" /\ part = Str("length") THEN JNum(Len(value.s))
  ELSE IF part \in Inherited THEN JFunction(part)
  ELSE Undefined

RECURSIVE Walk(_, _)
Walk(value, keyParts) ==
  IF keyParts = <<>> THEN value
  ELSE IF value.t \in {"undefined", "null"} THEN Undefined
  ELSE Walk(Index(value, Head(keyParts)), Tail(keyParts))

Sops_get(w, self, inputPath, key) ==
  LET Viewed(data) ==
        IF ~data.res.ok
        THEN [self |-> data.self, res |-> Wrap("Failed to get value at", data.res)]
        ELSE [self |-> data.self, res |-> Ok(Walk(data.res.v, split(key, <<>>)))]
  IN Viewed(Sops_view(w, self, inputPath))

---------------------------------------------------------------------------
(* Spec: two Sops instances used as a library over one working directory    *)

Insts == {1, 2}

KeyA == path_join(Cwd, DefaultKeyName)
KeyB == path_join(Cwd, <<"team", "key">>)
PlainPath == path_join(Cwd, <<"secrets", "json">>)
EncPath == path_join(Cwd, <<"secrets", "enc", "json">>)
DecPath == path_join(Cwd, <<"plain", "yaml">>)

\* what a key file may hold: a key, a key with white space around it, another
\* key, nothing but a newline
KeyTexts ==
  { Str("K1"), <<Ws(" "), Ch("K1"), Ws("\n")>>, Str("K2"), <<Ws("\n")>> }

\* the documents a plaintext file may hold
Docs ==
  { JObj(<<Str("data")>>, <<JObj(<<Str("x")>>, <<JNum(1)>>)>>),
    JObj(<<Str("a"), Str("b")>>, <<JStr(Str("s")), JNull>>),
    JStr(Str("K1")) }

DotPaths ==
  { <<Ch("data"), Ch("."), Ch("x")>>, <<Ch("a"), Ch("."), Ch("length")>>,
    <<Ch("b"), Ch("."), Ch("c")>>, <<Ch("data"), Ch("."), Ch("constructor")>>,
    <<Ch("data"), Ch("."), Ch("y"), Ch("."), Ch("z")>> }

AllDirs(d) == {SubSeq(d, 1, k) : k \in 0..Len(d)}

W == World(files, dirs)

\* history, per instance: the key its first successful getKey()/initialize()
\* returned, and whether a getKey() of it has failed for want of a key file
NoHistory == [first |-> Undefined, missed |-> FALSE]

KeyFile(text, mode) == [content |-> text, mode |-> mode]

\* in a choice of what a path holds: no file there
Absent == <<[absent |-> TRUE]>>

\* the envelope file an earlier Sops.encrypt of doc under key wrote (draw 0)
EnvelopeOf(doc, key) ==
  LET w0 == World(PlainPath :> KeyFile(Stringify(doc, TRUE), CreateMode), AllDirs(Cwd))
      self == [keyPath |-> KeyA, key |-> JStr(key)]
  IN Sops_encrypt(w0, self, PlainPath, EncPath, 0, NoFault).w.files[EncPath]

NewInst(w, keyPathOption) == [sops |-> Sops_new(w, keyPathOption), hist |-> NoHistory]

\* Spec: two instances, each with its key file, and a plaintext document
Init ==
  /\ \E a \in {Str("K1"), <<Ws(" "), Ch("K1"), Ws("\n")>>},
        b \in {Str("K1"), Str("K2"), Absent}, d \in Docs :
       files = (KeyA :> KeyFile(a, KeyFileMode))
               @@ (IF b = Absent THEN <<>> ELSE KeyB :> KeyFile(b, KeyFileMode))
               @@ (PlainPath :> KeyFile(Stringify(d, TRUE), CreateMode))
  /\ dirs = AllDirs(Cwd)
  /\ inst = [i \in Insts |-> NewInst(World(files, dirs), IF i = 1 THEN NoPath ELSE KeyB)]
  /\ last = NoOp
  /\ nrand = 0
  /\ sent = {}
  /\ wire = Undefined

Remember(h, res) ==
  [first |-> IF res.ok /\ h.first = Undefined THEN res.v ELSE h.first,
   missed |-> h.missed \/ (~res.ok /\ res.err[1] = "Key file not found at")]

Initialize(i, fault) ==
  LET Returned(r) ==
        /\ files' = r.w.files
        /\ dirs' = r.w.dirs
        /\ inst' = [inst EXCEPT ![i].sops = r.self, ![i].hist = Remember(@, r.res)]
        /\ last' = [op |-> "initialize", i |-> i, res |-> r.res]
  IN /\ fs_existsSync(W, inst[i].sops.keyPath) \/ nrand < MaxRandom
     /\ Returned(Sops_initialize(W, inst[i].sops, nrand + 1, fault))
     /\ nrand' = IF fs_existsSync(W, inst[i].sops.keyPath) THEN nrand ELSE nrand + 1
     /\ UNCHANGED <<sent, wire>>

GetKey(i) ==
  LET Returned(r) ==
        /\ inst' = [inst EXCEPT ![i].sops = r.self, ![i].hist = Remember(@, r.res)]
        /\ last' = [op |-> "getKey", i |-> i, res |-> r.res, warned |-> r.warned]
  IN /\ Returned(Sops_getKey(W, inst[i].sops))
     /\ UNCHANGED <<files, dirs, nrand, sent, wire>>

Encrypt(i, inputPath, outputPath, fault) ==
  LET Returned(data, k, r) ==
        /\ files' = r.w.files
        /\ dirs' = r.w.dirs
        /\ inst' = [inst EXCEPT ![i].sops = r.self]
        /\ last' = [op |-> "encrypt", i |-> i, res |-> r.res,
                    input |-> inputPath, output |-> outputPath, data |-> data]
        \* crypto.encrypt, once reached, draws the iv
        /\ nrand' = IF data.ok /\ k.res.ok THEN nrand + 1 ELSE nrand
        /\ (data.ok /\ k.res.ok) => nrand < MaxRandom
  IN /\ Returned(readDataFile(W, inputPath), Sops_getKey(W, inst[i].sops),
                 Sops_encrypt(W, inst[i].sops, inputPath, outputPath, nrand + 1, fault))
     /\ UNCHANGED <<sent, wire>>

Decrypt(i, inputPath, outputPath, fault) ==
  LET Returned(r) ==
        /\ files' = r.w.files
        /\ dirs' = r.w.dirs
        /\ inst' = [inst EXCEPT ![i].sops = r.self]
        /\ last' = [op |-> "decrypt", i |-> i, res |-> r.res,
                    input |-> inputPath, output |-> outputPath]
  IN /\ Returned(Sops_decrypt(W, inst[i].sops, inputPath, outputPath, fault))
     /\ UNCHANGED <<nrand, sent, wire>>

View(i, inputPath) ==
  LET Returned(r) ==
        /\ inst' = [inst EXCEPT ![i].sops = r.self]
        /\ last' = [op |-> "view", i |-> i, res |-> r.res, input |-> inputPath]
  IN /\ Returned(Sops_view(W, inst[i].sops, inputPath))
     /\ UNCHANGED <<files, dirs, nrand, sent, wire>>

Get(i, inputPath, key) ==
  LET Returned(r) ==
        /\ inst' = [inst EXCEPT ![i].sops = r.self]
        /\ last' = [op |-> "get", i |-> i, res |-> r.res, input |-> inputPath,
                    key |-> key]
  IN /\ Returned(Sops_get(W, inst[i].sops, inputPath, key))
     /\ UNCHANGED <<files, dirs, nrand, sent, wire>>

\* someone else removes, writes or re-modes the key file
RemoveKeyFile(p) ==
  /\ fs_existsSync(W, p)
  /\ files' = fs_unlinkSync(W, p, "ok").w.files
  /\ last' = [op |-> "unlink", path |-> p]
  /\ UNCHANGED <<dirs, inst, nrand, sent, wire>>

WriteKeyFile(p, text) ==
  /\ files' = fs_writeFileSync(W, p, text, "ok").w.files
  /\ last' = [op |-> "write", path |-> p]
  /\ UNCHANGED <<dirs, inst, nrand, sent, wire>>

ChmodKeyFile(p, mode) ==
  /\ fs_existsSync(W, p)
  /\ files' = fs_chmodSync(W, p, mode, "ok").w.files
  /\ last' = [op |-> "chmod", path |-> p]
  /\ UNCHANGED <<dirs, inst, nrand, sent, wire>>

\* the decrypt command's action handler: the output defaults to
\* inputPath.replace(/\.enc$/, ''), the key file to the one Sops resolves
CliDecrypt(w, input, outputOption, keyFile, fault) ==
  LET outputPath ==
        IF outputOption # NoPath THEN outputOption
        ELSE IF Len(input.name) > 1 /\ input.name[Len(input.name)] = "enc"
        THEN path_join(input.dir, SubSeq(input.name, 1, Len(input.name) - 1))
        ELSE input
      Exit(d) == [w |-> d.w, code |-> IF d.res.ok THEN 0 ELSE 1, output |-> outputPath]
  IN Exit(Sops_decrypt(w, Sops_new(w, keyFile), input, outputPath, fault))

\* node-sops decrypt -i input [-o output]
DecryptCmd(input, outputOption, fault) ==
  LET Exited(x) ==
        /\ files' = x.w.files
        /\ dirs' = x.w.dirs
        /\ last' = [op |-> "decrypt command", code |-> x.code, input |-> input,
                    output |-> x.output]
  IN /\ Exited(CliDecrypt(W, input, outputOption, NoPath, fault))
     /\ UNCHANGED <<inst, nrand, sent, wire>>

KeyFaults ==
  {NoFault, Fault("write", "fail"), Fault("write", "partial"), Fault("chmod", "fail")}

Next ==
  \/ \E i \in Insts : GetKey(i)
  \/ \E i \in Insts, out \in {EncPath, PlainPath},
          fault \in {NoFault, Fault("write", "partial")} :
       Encrypt(i, PlainPath, out, fault)
  \/ \E i \in Insts, p \in {EncPath, PlainPath} : View(i, p)

Spec == Init /\ [][Next]_vars

---------------------------------------------------------------------------
(* SpecKeys: the life of one instance's key, with a key file that others    *)
(* may remove, rewrite or re-mode                                           *)

InitKeys ==
  /\ \E a \in KeyTexts \cup {Absent}, ma \in {KeyFileMode, CreateMode} :
       files = (IF a = Absent THEN <<>> ELSE KeyA :> KeyFile(a, ma))
  /\ dirs = AllDirs(Cwd)
  /\ \E option \in {NoPath, KeyA} :
       inst = [i \in Insts |-> NewInst(World(files, dirs), option)]
  /\ last = NoOp
  /\ nrand = 0
  /\ sent = {}
  /\ wire = Undefined

NextKeys ==
  \/ \E fault \in KeyFaults : Initialize(1, fault)
  \/ GetKey(1)
  \/ RemoveKeyFile(KeyA)
  \/ \E text \in KeyTexts : WriteKeyFile(KeyA, text)
  \/ \E mode \in {KeyFileMode, CreateMode} : ChmodKeyFile(KeyA, mode)

SpecKeys == InitKeys /\ [][NextKeys]_vars

---------------------------------------------------------------------------
(* SpecInitializing: initialize() called on two instances of one key path   *)
(* at once, each call in two steps; sent holds the calls that have passed   *)
(* the exists check, with the key each has generated                        *)

\* if (fs.existsSync(this.keyPath)) throw ...; const key = generateKey()
InitializeCheck(i) ==
  LET Thrown(res) ==
        /\ inst' = [inst EXCEPT ![i].hist = Remember(@, res)]
        /\ last' = [op |-> "initialize", i |-> i, res |-> res]
        /\ UNCHANGED <<nrand, sent>>
      Passed(key) ==
        /\ nrand < MaxRandom
        /\ sent' = sent \cup {[i |-> i, key |-> key]}
        /\ nrand' = nrand + 1
        /\ last' = [op |-> "initialize check", i |-> i]
        /\ UNCHANGED inst
  IN /\ \A call \in sent : call.i # i
     /\ IF fs_existsSync(W, inst[i].sops.keyPath)
        THEN Thrown(Err(<<"Key file already exists at">>))
        ELSE Passed(generateKey(nrand + 1))
     /\ UNCHANGED <<files, dirs, wire>>

\* saveKey(key, this.keyPath); this.key = key; return key
InitializeSave(i, fault) ==
  LET Returned(call, s, res) ==
        /\ files' = s.w.files
        /\ dirs' = s.w.dirs
        /\ inst' = [inst EXCEPT ![i].sops.key = IF s.ok THEN JStr(call.key) ELSE @,
                                ![i].hist = Remember(@, res)]
        /\ last' = [op |-> "initialize", i |-> i, res |-> res]
        /\ sent' = sent \ {call}
      Saved(call, s) ==
        Returned(call, s, IF s.ok THEN Ok(JStr(call.key)) ELSE Err(s.err))
  IN /\ \E call \in sent :
          /\ call.i = i
          /\ Saved(call, saveKey(W, call.key, inst[i].sops.keyPath, fault))
     /\ UNCHANGED <<nrand, wire>>

NextInitializing ==
  \/ \E i \in Insts : InitializeCheck(i)
  \/ \E i \in Insts, fault \in KeyFaults : InitializeSave(i, fault)

SpecInitializing == InitKeys /\ [][NextInitializing]_vars

---------------------------------------------------------------------------
(* SpecNoKey: an instance whose key file does not exist yet                 *)

\* the envelope file with its tag as encrypt wrote it, flipped, or missing
EnvelopeWithTag(env, how) ==
  IF how = "genuine" THEN env
  ELSE KeyFile(Stringify(Altered(JSON_parse(env.content).v, P_tag, how), TRUE),
               env.mode)

InitNoKey ==
  /\ \E d \in Docs :
       files = (PlainPath :> KeyFile(Stringify(d, TRUE), CreateMode))
               @@ (EncPath :> EnvelopeOf(d, Str("K1")))
  /\ dirs = AllDirs(Cwd)
  /\ inst = [i \in Insts |-> NewInst(World(files, dirs), NoPath)]
  /\ last = NoOp
  /\ nrand = 0
  /\ sent = {}
  /\ wire = Undefined

NextNoKey ==
  \/ GetKey(1)
  \/ Encrypt(1, PlainPath, EncPath, NoFault)
  \/ \E fault \in {NoFault, Fault("write", "fail")} : Decrypt(1, EncPath, DecPath, fault)
  \/ View(1, EncPath)
  \/ \E key \in DotPaths : Get(1, EncPath, key)
  \/ \E text \in KeyTexts : WriteKeyFile(KeyA, text)
  \/ RemoveKeyFile(KeyA)

SpecNoKey == InitNoKey /\ [][NextNoKey]_vars

---------------------------------------------------------------------------
(* SpecEnvelope: one instance with its key file, over a document and an     *)
(* envelope whose tag may have been altered or removed                      *)

InitEnvelope ==
  /\ \E d \in Docs, how \in {"genuine", "flip", "missing"} :
       files = (KeyA :> KeyFile(Str("K1"), KeyFileMode))
               @@ (PlainPath :> KeyFile(Stringify(d, TRUE), CreateMode))
               @@ (EncPath :> EnvelopeWithTag(EnvelopeOf(d, Str("K1")), how))
  /\ dirs = AllDirs(Cwd)
  /\ inst = [i \in Insts |-> NewInst(World(files, dirs), NoPath)]
  /\ last = NoOp
  /\ nrand = 0
  /\ sent = {}
  /\ wire = Undefined

NextEnvelope ==
  \/ \E input \in {PlainPath, DecPath},
        fault \in {NoFault, Fault("write", "partial")} :
       Encrypt(1, input, EncPath, fault)
  \/ Decrypt(1, EncPath, DecPath, NoFault)
  \* into a directory that does not exist yet, the write failing
  \/ \E fault \in {Fault("write", "fail"), Fault("write", "partial")} :
       Decrypt(1, EncPath, path_join(Append(Cwd, "out"), <<"plain", "json">>), fault)
  \/ Encrypt(1, PlainPath, path_join(Cwd, <<"plain", "json", "enc">>), NoFault)
  \/ \E input \in {EncPath, path_join(Cwd, <<"plain", "json", "enc">>)},
        outputOption \in {NoPath, DecPath} :
       DecryptCmd(input, outputOption, NoFault)
  \/ View(1, EncPath)
  \/ \E key \in DotPaths : Get(1, EncPath, key)
  \/ RemoveKeyFile(KeyA)

SpecEnvelope == InitEnvelope /\ [][NextEnvelope]_vars

---------------------------------------------------------------------------
(* SpecFind: key files in the working directory and above it, looked for by *)
(* findKeyFile and by the constructor                                       *)

\* the depths findKeyFile is called with
MaxDepths == 0..3

InitFind ==
  /\ \E present \in SUBSET AllDirs(Cwd) :
       files = [p \in {path_join(d, DefaultKeyName) : d \in present} |->
                  KeyFile(Str("K1"), KeyFileMode)]
  /\ dirs = AllDirs(Cwd)
  /\ inst = [i \in Insts |-> NewInst(World(files, dirs), NoPath)]
  /\ last = NoOp
  /\ nrand = 0
  /\ sent = {}
  /\ wire = Undefined

\* sops = new Sops({keyPath: option})
Construct(i, option) ==
  /\ inst' = [inst EXCEPT ![i] = NewInst(W, option)]
  /\ last' = [op |-> "new", i |-> i, option |-> option]
  /\ UNCHANGED <<files, dirs, nrand, sent, wire>>

FindKeyFile(fileName, maxDepth) ==
  /\ last' = [op |-> "findKeyFile", fileName |-> fileName, maxDepth |-> maxDepth,
              res |-> findKeyFile(W, fileName, maxDepth)]
  /\ UNCHANGED <<files, dirs, inst, nrand, sent, wire>>

NextFind ==
  \/ \E option \in {NoPath, KeyB} : Construct(1, option)
  \/ \E fileName \in {DefaultKeyName, KeyB.name}, maxDepth \in MaxDepths :
       FindKeyFile(fileName, maxDepth)
  \/ Initialize(1, NoFault)
  \/ GetKey(1)
  \/ \E d \in AllDirs(Cwd) : WriteKeyFile(path_join(d, DefaultKeyName), Str("K2"))
  \/ \E d \in AllDirs(Cwd) : RemoveKeyFile(path_join(d, DefaultKeyName))

SpecFind == InitFind /\ [][NextFind]_vars

---------------------------------------------------------------------------
(* src/cli.ts: the rotate command, from its options to its exit code        *)

TempName == <<"temp_rotation", "json">>

\* a rotate that makes its new key before it has decrypted the input
rotate_initializesFirst(w, input, outputOption, oldKeyFile, newKeyFile, r, fault) ==
  LET outputPath == IF outputOption # NoPath THEN outputOption ELSE input
      tempFilePath == path_join(path_dirname(outputPath), TempName)
      Exit(w1, code, err, newSops, data, drawn) ==
        [w |-> w1, code |-> code, err |-> err, newSops |-> newSops, data |-> data,
         drawn |-> drawn, output |-> outputPath, temp |-> tempFilePath]
      Unlinked(e, data, drawn, u) ==
        IF ~u.ok THEN Exit(u.w, 1, u.err, e.self, data, drawn)
        ELSE Exit(u.w, 0, <<>>, e.self, data, drawn)
      Encrypted(data, drawn, e) ==
        IF ~e.res.ok THEN Exit(e.w, 1, e.res.err, e.self, data, drawn)
        ELSE Unlinked(e, data, drawn,
                      fs_unlinkSync(e.w, tempFilePath, At(fault, "unlink")))
      TempWritten(newSops, data, drawn, t) ==
        IF ~t.ok THEN Exit(t.w, 1, t.err, newSops, data, drawn)
        ELSE Encrypted(data,
                       \* crypto.encrypt, once reached, draws the iv
                       IF readDataFile(t.w, tempFilePath).ok
                          /\ Sops_getKey(t.w, newSops).res.ok
                       THEN drawn + 1 ELSE drawn,
                       Sops_encrypt(t.w, newSops, tempFilePath, outputPath,
                                    r + drawn + 1, Within(fault, "encrypt")))
      \* try { if (!options.newKeyFile) newSops.initialize() } catch {}
      Prepared(data, drawn, i) ==
        TempWritten(i.self, data, drawn,
                    fs_writeFileSync(i.w, tempFilePath, JSON_stringify(data, FALSE).s,
                                     At(fault, "temp")))
      Constructed(data, newSops) ==
        IF newKeyFile # NoPath
        THEN Prepared(data, 0, [w |-> w, self |-> newSops])
        ELSE Prepared(data, IF fs_existsSync(w, newSops.keyPath) THEN 0 ELSE 1,
                      Sops_initialize(w, newSops, r + 1, Within(fault, "initialize")))
      Viewed(d) ==
        IF ~d.res.ok
        THEN Exit(Sops_initialize(w, Sops_new(w, newKeyFile), r + 1, NoFault).w, 1,
                  d.res.err, Undefined, Undefined,
                  IF fs_existsSync(w, Sops_new(w, newKeyFile).keyPath) THEN 0 ELSE 1)
        ELSE Constructed(d.res.v, Sops_new(w, newKeyFile))
  IN Viewed(Sops_view(w, Sops_new(w, oldKeyFile), input))

\* rotate's action handler; r is the number of random draws made so far
CliRotate(w, input, outputOption, oldKeyFile, newKeyFile, r, fault) ==
  LET outputPath == IF outputOption # NoPath THEN outputOption ELSE input
      tempFilePath == path_join(path_dirname(outputPath), TempName)
      Exit(w1, code, err, newSops, data, drawn) ==
        [w |-> w1, code |-> code, err |-> err, newSops |-> newSops, data |-> data,
         drawn |-> drawn, output |-> outputPath, temp |-> tempFilePath]
      Unlinked(e, data, drawn, u) ==
        IF ~u.ok THEN Exit(u.w, 1, u.err, e.self, data, drawn)
        ELSE Exit(u.w, 0, <<>>, e.self, data, drawn)
      Encrypted(data, drawn, e) ==
        IF ~e.res.ok THEN Exit(e.w, 1, e.res.err, e.self, data, drawn)
        ELSE Unlinked(e, data, drawn,
                      fs_unlinkSync(e.w, tempFilePath, At(fault, "unlink")))
      TempWritten(newSops, data, drawn, t) ==
        IF ~t.ok THEN Exit(t.w, 1, t.err, newSops, data, drawn)
        ELSE Encrypted(data,
                       \* crypto.encrypt, once reached, draws the iv
                       IF readDataFile(t.w, tempFilePath).ok
                          /\ Sops_getKey(t.w, newSops).res.ok
                       THEN drawn + 1 ELSE drawn,
                       Sops_encrypt(t.w, newSops, tempFilePath, outputPath,
                                    r + drawn + 1, Within(fault, "encrypt")))
      \* try { if (!options.newKeyFile) newSops.initialize() } catch {}
      Prepared(data, drawn, i) ==
        TempWritten(i.self, data, drawn,
                    fs_writeFileSync(i.w, tempFilePath, JSON_stringify(data, FALSE).s,
                                     At(fault, "temp")))
      Constructed(data, newSops) ==
        IF newKeyFile # NoPath
        THEN Prepared(data, 0, [w |-> w, self |-> newSops])
        ELSE Prepared(data, IF fs_existsSync(w, newSops.keyPath) THEN 0 ELSE 1,
                      Sops_initialize(w, newSops, r + 1, Within(fault, "initialize")))
      Viewed(d) ==
        IF ~d.res.ok THEN Exit(w, 1, d.res.err, Undefined, Undefined, 0)
        ELSE Constructed(d.res.v, Sops_new(w, newKeyFile))
  IN Viewed(Sops_view(w, Sops_new(w, oldKeyFile), input))

---------------------------------------------------------------------------
(* SpecRotate: rotate run from the command line over a directory holding an *)
(* envelope, the key it was made with, and perhaps a second key file        *)

KeyN == path_join(Cwd, <<"new", "key">>)
OutPath == path_join(Cwd, <<"rotated", "enc", "json">>)
TempPath == path_join(Cwd, TempName)

RotateFaults ==
  { NoFault, Fault("temp", "fail"), Fault("unlink", "fail"),
    FaultIn("encrypt", "write", "partial"), FaultIn("initialize", "write", "fail") }

RotateDocs ==
  { JObj(<<Str("data")>>, <<JObj(<<Str("x")>>, <<JNum(1)>>)>>), JStr(Str("K1")) }

InitRotate ==
  /\ \E d \in RotateDocs, old \in {KeyA, KeyB}, n \in {Str("K2"), Absent} :
       files = (old :> KeyFile(Str("K1"), KeyFileMode))
               @@ (EncPath :> EnvelopeOf(d, Str("K1")))
               @@ (IF n = Absent THEN <<>> ELSE KeyN :> KeyFile(n, KeyFileMode))
  /\ dirs = AllDirs(Cwd)
  /\ inst = <<>>
  /\ last = NoOp
  /\ nrand = 0
  /\ sent = {}
  /\ wire = Undefined

Rotate(input, outputOption, oldKeyFile, newKeyFile, fault) ==
  LET Exited(x) ==
        /\ files' = x.w.files
        /\ dirs' = x.w.dirs
        /\ nrand' = nrand + x.drawn
        /\ last' = [op |-> "rotate", code |-> x.code, input |-> input,
                    output |-> x.output, temp |-> x.temp,
                    oldSops |-> Sops_new(W, oldKeyFile), newSops |-> x.newSops,
                    newKeyFile |-> newKeyFile, err |-> x.err,
                    data |-> x.data, before |-> files]
  IN /\ nrand < MaxRandom
     /\ Exited(CliRotate(W, input, outputOption, oldKeyFile, newKeyFile, nrand, fault))
     /\ UNCHANGED <<inst, sent, wire>>

NextRotate ==
  \E input \in {EncPath, OutPath}, outputOption \in {NoPath, OutPath, TempPath},
     oldKeyFile \in {NoPath, KeyB}, newKeyFile \in {NoPath, KeyN},
     fault \in RotateFaults :
    Rotate(input, outputOption, oldKeyFile, newKeyFile, fault)

SpecRotate == InitRotate /\ [][NextRotate]_vars

---------------------------------------------------------------------------
(* SpecRotating: two rotate commands running at once in one directory, each *)
(* a process that takes the steps of the action handler in order; inst maps *)
(* a process to where it is and what it holds                               *)

OtherPath == path_join(Cwd, <<"other", "enc", "json">>)

InitRotating ==
  /\ \E old \in {KeyA, KeyB} :
       files = (old :> KeyFile(Str("K1"), KeyFileMode))
               @@ (EncPath :> EnvelopeOf(JObj(<<Str("x")>>, <<JNum(1)>>), Str("K1")))
               @@ (OtherPath :> EnvelopeOf(JStr(Str("K1")), Str("K1")))
  /\ dirs = AllDirs(Cwd)
  /\ inst = <<>>
  /\ last = NoOp
  /\ nrand = 0
  /\ sent = {}
  /\ wire = Undefined

\* from the options to fs.writeFileSync(tempFilePath, JSON.stringify(data))
RotateStart(p, input, outputOption, oldKeyFile, newKeyFile) ==
  LET outputPath == IF outputOption # NoPath THEN outputOption ELSE input
      tempFilePath == path_join(path_dirname(outputPath), TempName)
      Proc(pc, code, newSops, data) ==
        [pc |-> pc, code |-> code, input |-> input, output |-> outputPath,
         temp |-> tempFilePath, newSops |-> newSops, data |-> data]
      Stepped(w1, proc, drawn) ==
        /\ files' = w1.files
        /\ dirs' = w1.dirs
        /\ inst' = (p :> proc) @@ inst
        /\ nrand' = nrand + drawn
        /\ last' = [op |-> "rotate start", p |-> p, code |-> proc.code]
      TempWritten(i, data, drawn, t) ==
        IF ~t.ok THEN Stepped(t.w, Proc("exited", 1, i.self, data), drawn)
        ELSE Stepped(t.w, Proc("written", 0, i.self, data), drawn)
      Prepared(data, drawn, i) ==
        TempWritten(i, data, drawn,
                    fs_writeFileSync(i.w, tempFilePath, JSON_stringify(data, FALSE).s, "ok"))
      Constructed(data, newSops) ==
        IF newKeyFile # NoPath
        THEN Prepared(data, 0, [w |-> W, self |-> newSops])
        ELSE Prepared(data, IF fs_existsSync(W, newSops.keyPath) THEN 0 ELSE 1,
                      Sops_initialize(W, newSops, nrand + 1, NoFault))
      Viewed(d) ==
        IF ~d.res.ok THEN Stepped(W, Proc("exited", 1, Undefined, Undefined), 0)
        ELSE Constructed(d.res.v, Sops_new(W, newKeyFile))
  IN /\ p \notin DOMAIN inst
     /\ nrand < MaxRandom
     /\ Viewed(Sops_view(W, Sops_new(W, oldKeyFile), input))
     /\ UNCHANGED <<sent, wire>>

\* newSops.encrypt(tempFilePath, outputPath)
RotateEncrypt(p) ==
  LET Encrypted(drawn, e) ==
        /\ files' = e.w.files
        /\ dirs' = e.w.dirs
        /\ inst' = [inst EXCEPT ![p].pc = IF e.res.ok THEN "encrypted" ELSE "exited",
                                ![p].code = IF e.res.ok THEN 0 ELSE 1,
                                ![p].newSops = e.self]
        /\ nrand' = nrand + drawn
        /\ last' = [op |-> "rotate encrypt", p |-> p,
                    code |-> IF e.res.ok THEN 0 ELSE 1]
  IN /\ p \in DOMAIN inst
     /\ inst[p].pc = "written"
     /\ nrand < MaxRandom
     /\ Encrypted(IF readDataFile(W, inst[p].temp).ok
                     /\ Sops_getKey(W, inst[p].newSops).res.ok THEN 1 ELSE 0,
                  Sops_encrypt(W, inst[p].newSops, inst[p].temp, inst[p].output,
                               nrand + 1, NoFault))
     /\ UNCHANGED <<sent, wire>>

\* fs.unlinkSync(tempFilePath), and the exit
RotateUnlink(p) ==
  LET Unlinked(u) ==
        /\ files' = u.w.files
        /\ dirs' = u.w.dirs
        /\ inst' = [inst EXCEPT ![p].pc = "exited",
                                ![p].code = IF u.ok THEN 0 ELSE 1]
        /\ last' = [op |-> "rotate unlink", p |-> p, code |-> IF u.ok THEN 0 ELSE 1]
  IN /\ p \in DOMAIN inst
     /\ inst[p].pc = "encrypted"
     /\ Unlinked(fs_unlinkSync(W, inst[p].temp, "ok"))
     /\ UNCHANGED <<nrand, sent, wire>>

NextRotating ==
  \/ \E p \in Insts, input \in {EncPath, OtherPath}, outputOption \in {NoPath, OutPath},
        oldKeyFile \in {NoPath, KeyB}, newKeyFile \in {NoPath, KeyN} :
       RotateStart(p, input, outputOption, oldKeyFile, newKeyFile)
  \/ \E p \in Insts : RotateEncrypt(p)
  \/ \E p \in Insts : RotateUnlink(p)

SpecRotating == InitRotating /\ [][NextRotating]_vars

---------------------------------------------------------------------------
(* SpecKeyFile: saveKey and loadKey called on their own, over key files of   *)
(* any mode, in a directory that exists and in one that does not            *)

InitKeyFile ==
  /\ \E a \in KeyTexts \cup {Absent}, ma \in {KeyFileMode, CreateMode} :
       files = (IF a = Absent THEN <<>> ELSE KeyA :> KeyFile(a, ma))
  /\ dirs = AllDirs(Cwd)
  /\ inst = <<>>
  /\ last = NoOp
  /\ nrand = 0
  /\ sent = {}
  /\ wire = Undefined

SaveKey(key, keyPath, fault) ==
  LET Returned(r) ==
        /\ files' = r.w.files
        /\ dirs' = r.w.dirs
        /\ last' = [op |-> "saveKey", key |-> key, path |-> keyPath, ok |-> r.ok,
                    before |-> files]
  IN /\ Returned(saveKey(W, key, keyPath, fault))
     /\ UNCHANGED <<inst, nrand, sent, wire>>

LoadKey(keyPath) ==
  /\ last' = [op |-> "loadKey", path |-> keyPath, res |-> loadKey(W, keyPath)]
  /\ UNCHANGED <<files, dirs, inst, nrand, sent, wire>>

NextKeyFile ==
  \/ \E key \in {Str("K1"), <<Ch("K2"), Ch("x")>>},
        keyPath \in {KeyA, path_join(Append(Cwd, "keys"), DefaultKeyName)},
        fault \in KeyFaults \cup {Fault("mkdir", "fail")} :
       SaveKey(key, keyPath, fault)
  \/ LoadKey(KeyA)
  \* modes 0600, 0644, 0640 and 0200
  \/ \E mode \in {KeyFileMode, CreateMode, 416, 128} : ChmodKeyFile(KeyA, mode)
  \/ RemoveKeyFile(KeyA)

SpecKeyFile == InitKeyFile /\ [][NextKeyFile]_vars

---------------------------------------------------------------------------
(* The properties                                                           *)

Says(res, msg) == \E n \in 1..Len(res.err) : res.err[n] = msg

\* the key instance j would use in world w, or the error getKey() throws
KeyOf(w, j) == Sops_getKey(w, inst[j].sops).res

\* C1: round trip. After Sops.encrypt of an input holding document D has
\* succeeded on an instance whose key is K, Sops.view of the output on every
\* instance whose key is K returns D; and crypto.decrypt under K of what
\* crypto.encrypt under K made of a string p returns p.
RoundTrip ==
  /\ (last.op = "encrypt" /\ last.res.ok) =>
       \A j \in Insts :
         (KeyOf(W, j).ok /\ KeyOf(W, j) = KeyOf(W, last.i)) =>
           Sops_view(W, inst[j].sops, last.output).res = Ok(last.data.v)
  /\ \A p \in CryptoPlaintexts, k \in CryptoKeys :
       crypto_decrypt(crypto_encrypt(JStr(p), JStr(k), nrand + 1).v, JStr(k))
         = Ok(JStr(p))

\* an encrypt on instance 1 has succeeded, and instance 2, which reads the same
\* key from another key file, views the document
RoundTripReached ==
  /\ last.op = "encrypt" /\ last.res.ok /\ last.i = 1
  /\ inst[2].sops.keyPath # inst[1].sops.keyPath
  /\ KeyOf(W, 2) = KeyOf(W, 1)
  /\ last.data.v = JObj(<<Str("data")>>, <<JObj(<<Str("x")>>, <<JNum(1)>>)>>)
  /\ Sops_view(W, inst[2].sops, last.output).res = Ok(last.data.v)

\* C3: wrong key. After Sops.encrypt has succeeded on an instance whose key is
\* K1, Sops.view of the output on an instance whose key is K2 # K1 throws and
\* returns no document; and crypto.decrypt under K2 of what crypto.encrypt made
\* under K1 throws "Decryption failed".
WrongKeyFails ==
  /\ (last.op = "encrypt" /\ last.res.ok) =>
       \A j \in Insts :
         (KeyOf(W, j).ok /\ KeyOf(W, j) # KeyOf(W, last.i)) =>
           LET v == Sops_view(W, inst[j].sops, last.output).res
           IN ~v.ok /\ Says(v, "Failed to view encrypted content")
                    /\ Says(v, "Decryption failed")
  /\ \A p \in CryptoPlaintexts, k1 \in CryptoKeys :
     \A k2 \in CryptoKeys \ {k1} :
       LET d == crypto_decrypt(crypto_encrypt(JStr(p), JStr(k1), nrand + 1).v, JStr(k2))
       IN ~d.ok /\ Says(d, "Decryption failed")

\* an encrypt under K1 has succeeded, and the other instance holds K2
WrongKeyReached ==
  /\ last.op = "encrypt" /\ last.res.ok
  /\ \E j \in Insts :
       /\ KeyOf(W, last.i) = Ok(JStr(Str("K1")))
       /\ KeyOf(W, j) = Ok(JStr(Str("K2")))
       /\ ~Sops_view(W, inst[j].sops, last.output).res.ok

\* the bytes of the iv, the content and the tag that an envelope encodes
Triple(env) ==
  << FromBase64(GetProp(env, P_iv).s), FromBase64(GetProp(env, P_content).s),
     FromBase64(GetProp(env, P_tag).s) >>

\* C2: authenticity. crypto.decrypt under key K returns a plaintext only when
\* the envelope it is given is one that an encrypt call under K produced: an
\* envelope with an altered content or tag, or with a field taken from another
\* envelope, makes it throw.
OnlyGenuineDecrypts ==
  (last.op = "crypto.decrypt" /\ last.res.ok) =>
    \E e \in sent : e.key = last.key /\ Triple(e.env) = Triple(last.data)

\* C4: rotate's result. After rotate of F to output F2 has reported success,
\* F2 exists and view(F2) under the new key returns the document F held; and
\* when F2 is another path than F, F is as it was and view(F) under the old
\* key still returns the document.
RotateResult ==
  (last.op = "rotate" /\ last.code = 0) =>
    /\ fs_existsSync(W, last.output)
    /\ Sops_view(W, last.newSops, last.output).res = Ok(last.data)
    /\ last.output # last.input =>
         /\ fs_existsSync(W, last.input)
         /\ files[last.input] = last.before[last.input]
         /\ Sops_view(W, last.oldSops, last.input).res = Ok(last.data)

\* what path p holds is what it held before the last command
Untouched(p) ==
  /\ fs_existsSync(W, p) = (p \in DOMAIN last.before)
  /\ fs_existsSync(W, p) => files[p] = last.before[p]

\* C5: rotate is atomic. When rotate returns, either the output path holds an
\* envelope that the new key decrypts, or rotate reported failure and the
\* output path holds what it held before the call.
RotateAtomic ==
  last.op = "rotate" =>
    \/ /\ last.newSops # Undefined
       /\ fs_existsSync(W, last.output)
       /\ Sops_view(W, last.newSops, last.output).res.ok
    \/ /\ last.code = 1
       /\ Untouched(last.output)

\* C6: no plaintext left behind. When rotate returns, with success or with
\* failure, the temporary file temp_rotation.json that it wrote in the output
\* directory is no longer there.
RotateLeavesNoTemp ==
  (last.op = "rotate" /\ fs_existsSync(W, last.temp)) =>
    /\ last.temp \in DOMAIN last.before
    /\ files[last.temp] = last.before[last.temp]

\* C7: initialize() while a key file exists at the instance's key path throws
\* "Key file already exists", and leaves the key file (content and mode) and
\* the instance's cached key as they were.
InitializeKeepsExistingKey ==
  [][(last'.op = "initialize" /\ fs_existsSync(W, inst[1].sops.keyPath)) =>
       /\ ~last'.res.ok
       /\ last'.res.err = <<"Key file already exists at">>
       /\ files' = files
       /\ dirs' = dirs
       /\ inst'[1].sops = inst[1].sops]_vars

\* initialize() has thrown on an instance that had cached a key, over a key file
\* that by then held another key
InitializeRefused ==
  /\ last.op = "initialize" /\ ~last.res.ok
  /\ last.res.err = <<"Key file already exists at">>
  /\ Truthy(inst[1].sops.key)
  /\ fs_existsSync(W, inst[1].sops.keyPath)
  /\ trim(files[inst[1].sops.keyPath].content) # inst[1].sops.key.s

\* C8: initialize() while no key file exists at the instance's key path. When
\* it returns a key, the key file exists and holds that key, the instance has
\* cached it, and getKey() on the instance and on a new instance made with the
\* same key path return it. When saving the key throws, the instance's cached
\* key is as it was: the generated key is not cached.
InitializeCreatesKey ==
  [][(last'.op = "initialize" /\ ~fs_existsSync(W, inst[1].sops.keyPath)) =>
       LET keyPath == inst[1].sops.keyPath
           after == World(files', dirs')
       IN IF last'.res.ok
          THEN /\ fs_existsSync(after, keyPath)
               /\ JStr(files'[keyPath].content) = last'.res.v
               /\ last'.res.v = JStr(generateKey(nrand'))
               /\ inst'[1].sops.key = last'.res.v
               /\ Sops_getKey(after, inst'[1].sops).res = last'.res
               /\ Sops_getKey(after, Sops_new(after, keyPath)).res = last'.res
          ELSE /\ inst'[1].sops.key = inst[1].sops.key
               /\ inst'[1].sops.key # JStr(generateKey(nrand'))]_vars

\* initialize() has returned a key, which the key file holds and a new instance
\* reads
InitializeSucceeded ==
  /\ last.op = "initialize" /\ last.res.ok
  /\ JStr(files[inst[1].sops.keyPath].content) = last.res.v
  /\ inst[1].sops.key = last.res.v
  /\ Sops_getKey(W, Sops_new(W, inst[1].sops.keyPath)).res = last.res

\* C9: the key cache. Once getKey() or initialize() has succeeded on an
\* instance, every later getKey() on it returns the key that first success
\* returned, whatever the key file held and whatever has become of it.
KeyCached ==
  (last.op = "getKey" /\ inst[1].hist.first # Undefined) =>
    last.res = Ok(inst[1].hist.first)

\* C10: with no cached key and no key file at the key path, getKey() throws
\* "Key file not found", and so do encrypt, decrypt, view and get once they
\* have read their input; no file is created and the instance stays as it was.
\* A getKey() with no cached key and a key file at the path returns the key
\* that file holds.
KeyNotFound ==
  [][/\ ( /\ ~Truthy(inst[1].sops.key)
          /\ ~fs_existsSync(W, inst[1].sops.keyPath)
          /\ last'.op \in {"getKey", "encrypt", "decrypt", "view", "get"}
          /\ last'.op # "getKey" => readDataFile(W, last'.input).ok ) =>
          /\ ~last'.res.ok
          /\ Says(last'.res, "Key file not found at")
          /\ files' = files
          /\ dirs' = dirs
          /\ inst'[1].sops = inst[1].sops
     /\ ( /\ ~Truthy(inst[1].sops.key)
          /\ fs_existsSync(W, inst[1].sops.keyPath)
          /\ last'.op = "getKey" ) =>
          last'.res = Ok(JStr(trim(files[inst[1].sops.keyPath].content)))
    ]_vars

\* a getKey() that found no key file was followed, once a key file had been
\* written, by a getKey() that returned the key the file holds
KeyFoundLater ==
  /\ last.op = "getKey" /\ last.res.ok
  /\ inst[1].hist.missed
  /\ inst[1].hist.first = last.res.v
  /\ last.res.v = JStr(trim(files[inst[1].sops.keyPath].content))
  /\ Truthy(last.res.v)

\* C11: after every saveKey(key, path) that returns, also over a file that was
\* there with looser permissions, the file at path holds exactly key and has
\* no group or other permission bit set.
SavedKeyIsPrivate ==
  (last.op = "saveKey" /\ last.ok) =>
    /\ fs_existsSync(W, last.path)
    /\ files[last.path].content = last.key
    /\ files[last.path].mode % 64 = 0
    /\ hasSecurePermissions(W, last.path)

\* saveKey has returned over a file that held another text with mode 0644
SavedOverLooserFile ==
  /\ last.op = "saveKey" /\ last.ok
  /\ last.path \in DOMAIN last.before
  /\ last.before[last.path].mode = CreateMode
  /\ last.before[last.path].content # last.key
  /\ files[last.path] = KeyFile(last.key, KeyFileMode)

\* C12: the key file is never exposed. After saveKey, also when it threw at the
\* directory creation, at the write or at the permission change, no file at
\* the key path holds key material with a group or other permission bit set.
KeyNeverExposed ==
  last.op = "saveKey" =>
    ~ /\ fs_existsSync(W, last.path)
      /\ \E n \in 1..Len(last.key) :
           files[last.path].content = SubSeq(last.key, 1, n)
      /\ files[last.path].mode % 64 # 0

\* C13 as stated: loadKey on an existing key file returns its trimmed content
\* whatever its permission bits are, and warns exactly when a group or other
\* bit is set.
LoadKeyWhateverMode ==
  (last.op = "loadKey" /\ fs_existsSync(W, last.path)) =>
    /\ last.res.ok
    /\ last.res.v = JStr(trim(files[last.path].content))
    /\ last.res.warned = (files[last.path].mode % 64 # 0)

\* C13 amended: loadKey on an existing key file that the process may read
\* returns its trimmed content whatever its group and other permission bits
\* are, and warns exactly when one of them is set.
LoadKeyReadable ==
  (/\ last.op = "loadKey" /\ fs_existsSync(W, last.path)
   /\ OwnerCanRead(files[last.path].mode)) =>
    /\ last.res.ok
    /\ last.res.v = JStr(trim(files[last.path].content))
    /\ last.res.warned = (files[last.path].mode % 64 # 0)

\* loadKey has returned the key of a file of mode 0640, with a warning
LoadKeyWarned ==
  /\ last.op = "loadKey" /\ last.res.ok /\ last.res.warned
  /\ fs_existsSync(W, last.path)
  /\ files[last.path].mode = 416
  /\ files[last.path].content # trim(files[last.path].content)
  /\ last.res.v = JStr(Str("K1"))

\* C14: an encrypt or decrypt that fails, at whatever step, neither creates
\* nor modifies its output file and creates no directory.
FailedRunLeavesNoOutput ==
  [][(last'.op \in {"encrypt", "decrypt"} /\ ~last'.res.ok) =>
       /\ dirs' = dirs
       /\ (last'.output \in DOMAIN files') = (last'.output \in DOMAIN files)
       /\ last'.output \in DOMAIN files =>
            files'[last'.output] = files[last'.output]]_vars

\* C15: no decryption oracle: a failing crypto.decrypt reports the same error
\* as every other failing crypto.decrypt, here the one a wrong key gets on an
\* envelope as it was produced, whatever made it fail.
NoDecryptionOracle ==
  (last.op = "crypto.decrypt" /\ ~last.res.ok) =>
    \A e \in sent : \A k \in CryptoKeys :
      ~crypto_decrypt(e.env, JStr(k)).ok => crypto_decrypt(e.env, JStr(k)) = last.res

\* C16: view, decrypt or get of an envelope without its tag field fails, and
\* with an error of another kind than the "Decryption failed" that
\* crypto.decrypt reports for a cipher or authentication failure.
MissingTagIsMalformedEnvelope ==
  (/\ last.op \in {"view", "decrypt", "get"}
   /\ fs_existsSync(W, last.input)
   /\ JSON_parse(files[last.input].content).ok
   /\ JSON_parse(files[last.input].content).v.t = "object"
   /\ ~HasProp(JSON_parse(files[last.input].content).v, P_tag)
   /\ KeyOf(W, last.i).ok) =>
    /\ ~last.res.ok
    /\ ~Says(last.res, "Decryption failed")

\* the value reached from a document by following segments as map keys, and
\* undefined as soon as a segment is not a key of the map reached so far
RECURSIVE Follow(_, _)
Follow(doc, segments) ==
  IF segments = <<>> THEN doc
  ELSE IF HasProp(doc, Head(segments))
  THEN Follow(GetProp(doc, Head(segments)), Tail(segments))
  ELSE Undefined

\* the document of the envelope that the last get read
Viewed == Sops_view(W, inst[last.i].sops, last.input).res

\* C17: get on a decryptable envelope returns the value reached by following
\* the segments of dotPath as map keys from the document root, and undefined,
\* without throwing, when a segment is absent.
GetFollowsMapKeys ==
  (last.op = "get" /\ Viewed.ok) =>
    /\ last.res.ok
    /\ last.res.v = Follow(Viewed.v, split(last.key, <<>>))

Scalars == {"string", "number", "boolean", "null"}

\* C18: get returns undefined whenever a proper prefix of dotPath resolves to
\* a string, number, boolean or null, whatever the remaining segments are.
GetPastScalarIsUndefined ==
  (/\ last.op = "get" /\ Viewed.ok
   /\ \E n \in 0..(Len(split(last.key, <<>>)) - 1) :
        Follow(Viewed.v, SubSeq(split(last.key, <<>>), 1, n)).t \in Scalars) =>
    /\ last.res.ok
    /\ last.res.v = Undefined

\* C19: view and get create, modify and delete no file, whether they succeed
\* or fail, and change nothing but the instance they are called on, which they
\* may take from holding no key to holding the key it loaded.
ViewAndGetOnlyLoadKey ==
  [][last'.op \in {"view", "get"} =>
       /\ files' = files
       /\ dirs' = dirs
       /\ \A j \in DOMAIN inst :
            \/ inst'[j].sops = inst[j].sops
            \/ /\ j = last'.i
               /\ inst[j].sops.key = JNull
               /\ inst'[j].sops.key.t = "string"
               /\ inst'[j].sops.keyPath = inst[j].sops.keyPath]_vars

\* C20: decrypt, as Sops.decrypt and as the decrypt command with or without
\* an output option, leaves the file at its input path with the content it had.
DecryptKeepsEnvelope ==
  [][(last'.op \in {"decrypt", "decrypt command"} /\ last'.input \in DOMAIN files) =>
       /\ last'.input \in DOMAIN files'
       /\ files'[last'.input].content = files[last'.input].content]_vars

\* the path the constructor is to resolve, given its option, in a world
ResolvedKeyPath(w, option) ==
  IF option # NoPath THEN option
  ELSE IF findKeyFile(w, DefaultKeyName, DefaultMaxDepth) # NoPath
  THEN findKeyFile(w, DefaultKeyName, DefaultMaxDepth)
  ELSE path_join(Cwd, DefaultKeyName)

\* C21: a new instance uses the key path it is given; without one, the path
\* findKeyFile returns if it finds a key file; otherwise .sops-key in the
\* working directory. No method of the instance changes the path afterwards.
KeyPathResolved ==
  [][/\ last'.op = "new" =>
          inst'[last'.i].sops.keyPath = ResolvedKeyPath(W, last'.option)
     /\ last'.op # "new" =>
          \A i \in DOMAIN inst : inst'[i].sops.keyPath = inst[i].sops.keyPath]_vars

\* an instance made without a key path, with a key file only in the parent of
\* the working directory, has a key loaded from there although the working
\* directory has its own key file by now
KeyPathFoundAbove ==
  /\ last.op = "getKey" /\ last.res.ok
  /\ inst[1].sops.keyPath = path_join(SubSeq(Cwd, 1, Len(Cwd) - 1), DefaultKeyName)
  /\ fs_existsSync(W, path_join(Cwd, DefaultKeyName))

\* the k-th parent of the working directory, itself for k = 0
Above(k) == SubSeq(Cwd, 1, Len(Cwd) - k)

\* how far up the directories that hold a file of that name are, among the
\* working directory and its first maxDepth parents, the file system root last
Holders(w, fileName, maxDepth) ==
  {k \in 0..maxDepth : k <= Len(Cwd) /\ fs_existsSync(w, path_join(Above(k), fileName))}

\* C22: findKeyFile returns the path of the file called name in the directory
\* nearest to the working directory among that directory and its first maxDepth
\* parents, and none exactly when none of them holds such a file.
FindsNearestWithinDepth ==
  last.op = "findKeyFile" =>
    IF Holders(W, last.fileName, last.maxDepth) = {}
    THEN last.res = NoPath
    ELSE \E k \in Holders(W, last.fileName, last.maxDepth) :
           /\ \A j \in Holders(W, last.fileName, last.maxDepth) : k <= j
           /\ last.res = path_join(Above(k), last.fileName)

\* the envelope that the last encrypt wrote, parsed
Written == JSON_parse(files[last.output].content)

\* C23: the file a successful Sops.encrypt wrote holds iv, content and tag
\* from one single cipher call on the document under the instance's key, and
\* metadata with encryptedAt and with version "1.0".
EnvelopeFormat ==
  (last.op = "encrypt" /\ last.res.ok) =>
    /\ fs_existsSync(W, last.output)
    /\ Written.ok
    /\ \A field \in {P_iv, P_content, P_tag, P_metadata} : HasProp(Written.v, field)
    /\ \E r \in 1..nrand :
         LET Cipher(e) ==
               /\ e.ok
               /\ \A field \in {P_iv, P_content, P_tag} :
                    GetProp(Written.v, field) = GetProp(e.v, field)
         IN Cipher(crypto_encrypt(JSON_stringify(last.data.v, FALSE),
                                  KeyOf(W, last.i).v, r))
    /\ HasProp(GetProp(Written.v, P_metadata), Str("encryptedAt"))
    /\ GetProp(GetProp(Written.v, P_metadata), Str("encryptedAt")).t = "string"
    /\ HasProp(GetProp(Written.v, P_metadata), Str("version"))
    /\ GetProp(GetProp(Written.v, P_metadata), Str("version")) = JStr(Str("1.0"))

\* instance 2 has encrypted the document into a new envelope file, after
\* another encrypt had drawn an iv
EnvelopeWritten ==
  /\ last.op = "encrypt" /\ last.res.ok /\ last.i = 2
  /\ last.output = EncPath
  /\ nrand = 2
  /\ GetProp(Written.v, P_iv) = JStr(ToBase64(RandomBytes(2)))

\* the last rotate got as far as its new-key instance, whose key path held no
\* file when the command began
NewKeyMissing ==
  /\ last.op = "rotate"
  /\ last.newSops # Undefined
  /\ last.newSops.keyPath \notin DOMAIN last.before

\* C24: when the new-key instance has no key file at its key path, also when
\* that path was given with --new-key-file, rotate generates and saves a key
\* there and re-encrypts under it; it does not fail with "Key file not found".
RotateInitializesNewKey ==
  NewKeyMissing =>
    /\ \A n \in 1..Len(last.err) : last.err[n] # "Key file not found at"
    /\ last.code = 0 =>
         /\ fs_existsSync(W, last.newSops.keyPath)
         /\ last.newSops.key = JStr(trim(files[last.newSops.keyPath].content))

\* C26: a rotate without --new-key-file that reports success has encrypted
\* the output under a key generated during that call: a key that no file held
\* before the call, other than the key that decrypted the input.
RotateUsesFreshKey ==
  (last.op = "rotate" /\ last.code = 0 /\ last.newKeyFile = NoPath) =>
    /\ last.newSops.key.t = "string"
    /\ \A p \in DOMAIN last.before :
         last.newSops.key # JStr(trim(last.before[p].content))
    /\ last.newSops.key
         # Sops_getKey(World(last.before, dirs), last.oldSops).res.v

\* C29: when the old-key decryption of the input fails, rotate exits with an
\* error and leaves every file and directory as it was: no new key file, no
\* temporary file, the output path untouched.
RotateDecryptsFirst ==
  [][(/\ last'.op = "rotate"
      /\ ~Sops_view(W, last'.oldSops, last'.input).res.ok) =>
       /\ last'.code = 1
       /\ files' = files
       /\ dirs' = dirs]_vars

\* a rotate has failed to decrypt an input that exists, with a new key path
\* that holds no key file, on the wrong key or on an input that is not an
\* envelope
RotateRefused ==
  /\ last.op = "rotate" /\ last.code = 1
  /\ last.data = Undefined
  /\ last.newKeyFile = KeyN
  /\ ~fs_existsSync(W, KeyN)
  /\ fs_existsSync(W, last.input)
  /\ fs_existsSync(W, last.oldSops.keyPath)

\* C30: after a rotate, successful or failed, the only paths whose file is
\* new, gone or changed are the output path and the new key path; every other
\* file, also one in the output directory, is as it was.
RotateFootprint ==
  last.op = "rotate" =>
    \A p \in (DOMAIN files \cup DOMAIN last.before) \ {last.output} :
      (last.newSops = Undefined \/ p # last.newSops.keyPath) => Untouched(p)

\* C25: in every rotate run the temporary file no longer holds the plaintext
\* document when it is deleted: its content was overwritten first.
TempErasedBeforeUnlink ==
  [][(last'.op = "rotate unlink" /\ last'.code = 0) =>
       files[inst[last'.p].temp].content
         # JSON_stringify(inst[last'.p].data, FALSE).s]_vars

\* C27: two rotate processes with outputs in one directory do not disturb
\* each other: a process that exits with success has written an output that
\* its new key decrypts to the document of its own input, and no process that
\* has its new key fails at its encrypt or unlink step.
RotationsDoNotCollide ==
  \A p \in DOMAIN inst :
    /\ (inst[p].pc = "exited" /\ inst[p].code = 0
          /\ last.op = "rotate unlink" /\ last.p = p) =>
         Sops_view(W, inst[p].newSops, inst[p].output).res = Ok(inst[p].data)
    /\ (last.op \in {"rotate encrypt", "rotate unlink"} /\ last.p = p
          /\ Sops_getKey(W, inst[p].newSops).res.ok) =>
         inst[p].code = 0

\* the instances whose initialize() has returned a key
Initialized == {j \in Insts : inst[j].hist.first # Undefined}

\* C28: however the initialize() calls of two instances of one key path
\* interleave, at most one of them succeeds, and every instance whose
\* initialize() returned a key holds, cached, the key that the key file holds.
InitializeOnce ==
  /\ Cardinality(Initialized) <= 1
  /\ \A j \in Initialized :
       /\ fs_existsSync(W, inst[j].sops.keyPath)
       /\ inst[j].sops.key = JStr(files[inst[j].sops.keyPath].content)
====
